---- MODULE Spec2Model ----
(***************************************************************************)
(* MyContainer<T> (src/include/MyContainer.hpp): a vector-backed store     *)
(* with add / remove-all-equal, and six traversal classes (Order,          *)
(* ReverseOrder, AscendingOrder, DescendingOrder, SideCrossOrder,          *)
(* MiddleOutOrder).  Elements are modelled as the integers 1..MaxVal with  *)
(* their usual == and <.  C++ indices are 0-based; a vector is a TLA+      *)
(* sequence, so C++ vec[i] is vec[i + 1] here.                             *)
(***************************************************************************)
EXTENDS Integers, Sequences, FiniteSets, TLC

\* ---- bounds of the model ----
MaxVal == 5      \* element values are 1..MaxVal
MaxAdds == 5     \* add() calls in one behaviour of Spec
ViewVal == 2     \* element values in SpecView
ViewAdds == 3    \* add() calls in one behaviour of SpecView
MaxPos == 4      \* operator++ is not called on a kept object at this position

Values == 1..MaxVal
ViewValues == 1..ViewVal

Kinds == {"order", "reverse", "ascending", "descending", "sidecross", "middleout"}

VARIABLES
    data,   \* MyContainer::data
    last,   \* what the most recent call did: arguments, result, exception
    view,   \* a traversal object kept by the caller (SpecView)
    snap,   \* history: the contents of data when view was constructed
    nAdd,   \* history: number of add() calls
    nDel,   \* history: number of elements equal to the argument of a successful remove()
    hist    \* history: the values added, in order, less those a later remove(v) of an equal v took out

vars == <<data, last, view, snap, nAdd, nDel, hist>>

\* ---- std::vector primitives used by the container ----

\* variant: the value goes to the front
PushBack_Front(vec, value) == <<value>> \o vec

PushBack(vec, value) == Append(vec, value)

\* variant: the search starts at begin() + 1
Find_SkipFirst(vec, value) ==
    IF \E i \in 1..(Len(vec) - 1) : vec[i + 1] = value
    THEN CHOOSE i \in 1..(Len(vec) - 1) :
            /\ vec[i + 1] = value
            /\ \A j \in 1..(i - 1) : vec[j + 1] # value
    ELSE Len(vec)

\* std::find(begin, end, value): index of the first equal element, size() for end()
Find(vec, value) ==
    IF \E i \in 0..(Len(vec) - 1) : vec[i + 1] = value
    THEN CHOOSE i \in 0..(Len(vec) - 1) :
            /\ vec[i + 1] = value
            /\ \A j \in 0..(i - 1) : vec[j + 1] # value
    ELSE Len(vec)

\* std::remove(begin, end, value): shifts the kept elements to the front in
\* order, leaves the tail as it was, returns the new logical end
RECURSIVE StdRemoveLoop(_, _, _, _)
StdRemoveLoop(vec, value, i, w) ==
    IF i = Len(vec) THEN [vec |-> vec, it |-> w]
    ELSE IF vec[i + 1] # value
         THEN StdRemoveLoop([vec EXCEPT ![w + 1] = vec[i + 1]], value, i + 1, w + 1)
         ELSE StdRemoveLoop(vec, value, i + 1, w)

\* variant: only the first equal element is taken out
StdRemove_FirstOnly(vec, value) ==
    LET f == Find(vec, value) IN
    IF f = Len(vec) THEN [vec |-> vec, it |-> Len(vec)]
    ELSE [vec |-> SubSeq(vec, 1, f) \o SubSeq(vec, f + 2, Len(vec)) \o <<value>>,
          it |-> Len(vec) - 1]

StdRemove(vec, value) == StdRemoveLoop(vec, value, 0, 0)

\* variant: erase(it) instead of erase(it, end()): one element goes
Erase_One(vec, first, lst) == SubSeq(vec, 1, first) \o SubSeq(vec, first + 2, Len(vec))

\* vector::erase(first, last) on 0-based positions [first, last)
Erase(vec, first, lst) == SubSeq(vec, 1, first) \o SubSeq(vec, lst + 1, Len(vec))

\* std::sort with operator< (desc = FALSE) or std::greater<T> (desc = TRUE)
Comp(desc, a, b) == IF desc THEN a > b ELSE a < b

RECURSIVE SortInsert(_, _, _)
SortInsert(sorted, x, desc) ==
    IF sorted = <<>> THEN <<x>>
    ELSE IF Comp(desc, x, Head(sorted)) THEN <<x>> \o sorted
         ELSE <<Head(sorted)>> \o SortInsert(Tail(sorted), x, desc)

RECURSIVE StdSort(_, _)
StdSort(vec, desc) ==
    IF vec = <<>> THEN <<>>
    ELSE SortInsert(StdSort(Tail(vec), desc), Head(vec), desc)

\* ---- observation record of a call ----

NoCall == [op |-> "none", arg |-> 0, kind |-> "none", err |-> "none",
           before |-> <<>>, out |-> <<>>, beginPos |-> 0, endPos |-> 0,
           pos |-> 0, val |-> 0, steps |-> 0]

NoView == [kind |-> "none", own |-> <<>>, pos |-> 0]

Init ==
    /\ data = <<>>
    /\ last = NoCall
    /\ view = NoView
    /\ snap = <<>>
    /\ nAdd = 0
    /\ nDel = 0
    /\ hist = <<>>

\* number of elements of vec equal to value (T::operator==)
Count(vec, value) == Cardinality({i \in 1..Len(vec) : vec[i] = value})

\* ---- MyContainer::add ----
Add(value) ==
    /\ data' = PushBack(data, value)
    /\ last' = [NoCall EXCEPT !.op = "add", !.arg = value, !.before = data]
    /\ nAdd' = nAdd + 1
    /\ hist' = hist \o <<value>>
    /\ UNCHANGED <<view, snap, nDel>>

\* ---- MyContainer::remove ----
Remove(value) ==
    IF Find(data, value) = Len(data)
    THEN \* throw std::runtime_error("Element not found")
         /\ last' = [NoCall EXCEPT !.op = "remove", !.arg = value,
                                   !.before = data, !.err = "runtime_error"]
         /\ UNCHANGED <<data, view, snap, nAdd, nDel, hist>>
    ELSE LET r == StdRemove(data, value) IN
         /\ data' = Erase(r.vec, r.it, Len(r.vec))
         /\ last' = [NoCall EXCEPT !.op = "remove", !.arg = value, !.before = data]
         /\ nDel' = nDel + Count(data, value)
         /\ hist' = SelectSeq(hist, LAMBDA x : x # value)
         /\ UNCHANGED <<view, snap, nAdd>>

\* MyContainer::size
Size == Len(data)

\* variant: the bound test is index > size()
VecAt_OffByOne(vec, index) ==
    IF index > Len(vec) THEN [err |-> "out_of_range", val |-> 0]
    ELSE IF index = Len(vec) THEN [err |-> "none", val |-> 0]
    ELSE [err |-> "none", val |-> vec[index + 1]]

\* std::vector::at(index): throws std::out_of_range when index >= size()
VecAt(vec, index) ==
    IF index >= Len(vec) THEN [err |-> "out_of_range", val |-> 0]
    ELSE [err |-> "none", val |-> vec[index + 1]]

\* ---- MyContainer::at (const and non-const, same body) ----
At(index) ==
    LET r == VecAt(data, index) IN
    /\ last' = [NoCall EXCEPT !.op = "at", !.arg = index, !.before = data,
                              !.err = r.err, !.val = r.val]
    /\ UNCHANGED <<data, view, snap, nAdd, nDel, hist>>

\* ---- traversal classes: a view is [kind, own, pos]; own is the vector the
\* ---- object owns (sorted / order), empty for the two classes that only
\* ---- hold the reference cont and read the container's data on every call

\* variant: the copy is not sorted
AscendingCtor_Unsorted(d) == [kind |-> "ascending", own |-> d, pos |-> 0]

\* AscendingOrder(const MyContainer& c)
AscendingCtor(d) == [kind |-> "ascending", own |-> StdSort(d, FALSE), pos |-> 0]

\* variant: std::greater<T> is left out
DescendingCtor_Less(d) == [kind |-> "descending", own |-> StdSort(d, FALSE), pos |-> 0]

\* DescendingOrder(const MyContainer& c)
DescendingCtor(d) == [kind |-> "descending", own |-> StdSort(d, TRUE), pos |-> 0]

\* variant: no left == right case, the middle element is pushed twice
RECURSIVE SideCrossLoop_NoMiddle(_, _, _, _)
SideCrossLoop_NoMiddle(sorted, left, right, order) ==
    IF ~(left <= right) THEN order
    ELSE LET pushed == Append(Append(order, sorted[left + 1]), sorted[right + 1])
             right2 == IF right > 0 THEN right - 1 ELSE right
         IN  SideCrossLoop_NoMiddle(sorted, left + 1, right2, pushed)

\* the while loop of SideCrossOrder's constructor; left and right are size_t
RECURSIVE SideCrossLoop(_, _, _, _)
SideCrossLoop(sorted, left, right, order) ==
    IF ~(left <= right) THEN order
    ELSE LET pushed == IF left = right
                       THEN Append(order, sorted[left + 1])
                       ELSE Append(Append(order, sorted[left + 1]), sorted[right + 1])
             right2 == IF right > 0 THEN right - 1 ELSE right
         IN  SideCrossLoop(sorted, left + 1, right2, pushed)

\* SideCrossOrder(const MyContainer& c)
SideCrossCtor(d) ==
    LET sorted == StdSort(d, FALSE) IN
    IF sorted = <<>>
    THEN [kind |-> "sidecross", own |-> <<>>, pos |-> 0]
    ELSE [kind |-> "sidecross",
          own |-> SideCrossLoop(sorted, 0, Len(sorted) - 1, <<>>),
          pos |-> 0]

\* ReverseOrder(const MyContainer& c) : cont(c), pos(0)
ReverseCtor(d) == [kind |-> "reverse", own |-> <<>>, pos |-> 0]

\* Order(const MyContainer& c) : cont(c), pos(0)
OrderCtor(d) == [kind |-> "order", own |-> <<>>, pos |-> 0]

\* variant: the loop runs while both sides have elements (&& for ||)
RECURSIVE MiddleOutLoop_Both(_, _, _, _)
MiddleOutLoop_Both(d, left, right, order) ==
    IF ~(left >= 0 /\ right < Len(d)) THEN order
    ELSE LET o1 == Append(order, d[left + 1])
             o2 == Append(o1, d[right + 1])
         IN  MiddleOutLoop_Both(d, left - 1, right + 1, o2)

\* the while loop of MiddleOutOrder's constructor; left and right are int
RECURSIVE MiddleOutLoop(_, _, _, _)
MiddleOutLoop(d, left, right, order) ==
    IF ~(left >= 0 \/ right < Len(d)) THEN order
    ELSE LET o1 == IF left >= 0 THEN Append(order, d[left + 1]) ELSE order
             left2 == IF left >= 0 THEN left - 1 ELSE left
             o2 == IF right < Len(d) THEN Append(o1, d[right + 1]) ELSE o1
             right2 == IF right < Len(d) THEN right + 1 ELSE right
         IN  MiddleOutLoop(d, left2, right2, o2)

\* variant: mid = (size - 1) / 2
MiddleOutCtor_LowMid(d) ==
    IF d = <<>>
    THEN [kind |-> "middleout", own |-> <<>>, pos |-> 0]
    ELSE LET mid == (Len(d) - 1) \div 2 IN
         [kind |-> "middleout",
          own |-> MiddleOutLoop(d, mid - 1, mid + 1, <<d[mid + 1]>>),
          pos |-> 0]

\* MiddleOutOrder(const MyContainer& c)
MiddleOutCtor(d) ==
    IF d = <<>>
    THEN [kind |-> "middleout", own |-> <<>>, pos |-> 0]
    ELSE LET mid == Len(d) \div 2 IN
         [kind |-> "middleout",
          own |-> MiddleOutLoop(d, mid - 1, mid + 1, <<d[mid + 1]>>),
          pos |-> 0]

\* ascending_order() ... middle_out_order()
Ctor(kind, d) ==
    CASE kind = "ascending"  -> AscendingCtor(d)
      [] kind = "descending" -> DescendingCtor(d)
      [] kind = "sidecross"  -> SideCrossCtor(d)
      [] kind = "reverse"    -> ReverseCtor(d)
      [] kind = "order"      -> OrderCtor(d)
      [] kind = "middleout"  -> MiddleOutCtor(d)

Thrown(what) == [err |-> what, val |-> 0]
Returned(value) == [err |-> "none", val |-> value]

\* operator*() of each class; d is cont.get_data() at the time of the call
\* variant: the test is pos > size(), sorted[size()] is read
AscendingDeref_Late(v, d) ==
    IF v.pos > Len(v.own) THEN Thrown("out_of_range")
    ELSE IF v.pos = Len(v.own) THEN Returned(0)
    ELSE Returned(v.own[v.pos + 1])

AscendingDeref(v, d) ==
    IF v.pos >= Len(v.own) THEN Thrown("out_of_range") ELSE Returned(v.own[v.pos + 1])

DescendingDeref(v, d) ==
    IF v.pos >= Len(v.own) THEN Thrown("out_of_range") ELSE Returned(v.own[v.pos + 1])

SideCrossDeref(v, d) ==
    IF v.pos >= Len(v.own) THEN Thrown("out_of_range") ELSE Returned(v.own[v.pos + 1])

\* variant: data[pos] instead of data[size - 1 - pos]
ReverseDeref_Forward(v, d) ==
    IF v.pos >= Len(d) THEN Thrown("out_of_range") ELSE Returned(d[v.pos + 1])

ReverseDeref(v, d) ==
    IF v.pos >= Len(d) THEN Thrown("out_of_range")
    ELSE Returned(d[(Len(d) - 1 - v.pos) + 1])

OrderDeref(v, d) ==
    IF v.pos >= Len(d) THEN Thrown("out_of_range") ELSE Returned(d[v.pos + 1])

MiddleOutDeref(v, d) ==
    IF v.pos >= Len(v.own) THEN Thrown("out_of_range") ELSE Returned(v.own[v.pos + 1])

Deref(v, d) ==
    CASE v.kind = "ascending"  -> AscendingDeref(v, d)
      [] v.kind = "descending" -> DescendingDeref(v, d)
      [] v.kind = "sidecross"  -> SideCrossDeref(v, d)
      [] v.kind = "reverse"    -> ReverseDeref(v, d)
      [] v.kind = "order"      -> OrderDeref(v, d)
      [] v.kind = "middleout"  -> MiddleOutDeref(v, d)

\* operator++(): ++pos, the same in the six classes
Inc(v) == [v EXCEPT !.pos = v.pos + 1]

\* operator== / operator!=: positions only
Eq(a, b) == a.pos = b.pos
Neq(a, b) == ~Eq(a, b)

\* begin(): return *this
Begin(v) == v

\* end(): a copy with pos = sorted.size() / order.size() / cont.get_data().size()
\* variant: end() one past the size
OwnEnd_Past(v, d) == [v EXCEPT !.pos = Len(v.own) + 1]

OwnEnd(v, d) == [v EXCEPT !.pos = Len(v.own)]
ContEnd(v, d) == [v EXCEPT !.pos = Len(d)]

End(v, d) == IF v.kind \in {"order", "reverse"} THEN ContEnd(v, d) ELSE OwnEnd(v, d)

\* for (auto x : range) body  ==  b = range.begin(); e = range.end();
\* for (; b != e; ++b) { x = *b; body }.  An exception of *b leaves the loop.
\* The result carries the cursor b as the loop left it.
RECURSIVE RangeLoop(_, _, _, _)
RangeLoop(b, e, d, out) ==
    IF ~Neq(b, e) THEN [out |-> out, err |-> "none", it |-> b]
    ELSE LET r == Deref(b, d) IN
         IF r.err # "none" THEN [out |-> out, err |-> r.err, it |-> b]
         ELSE RangeLoop(Inc(b), e, d, Append(out, r.val))

RangeFor(v, d) == RangeLoop(Begin(v), End(v, d), d, <<>>)

\* the caller collects a whole traversal of a fresh view:
\* for (auto x : c.<kind>()) actual.push_back(x);
Traverse(kind) ==
    \E v \in {Ctor(kind, data)} : \E r \in {RangeFor(v, data)} :
        /\ last' = [NoCall EXCEPT !.op = "traverse", !.kind = kind, !.before = data,
                                  !.out = r.out, !.err = r.err,
                                  !.beginPos = Begin(v).pos, !.endPos = End(v, data).pos,
                                  !.pos = r.it.pos, !.steps = r.it.pos - Begin(v).pos]
        /\ UNCHANGED <<data, view, snap, nAdd, nDel, hist>>

\* the caller keeps the object an accessor returned: auto it = c.<kind>();
CreateView(kind) ==
    /\ view' = Ctor(kind, data)
    /\ snap' = data
    /\ last' = [NoCall EXCEPT !.op = "create", !.kind = kind, !.before = data]
    /\ UNCHANGED <<data, nAdd, nDel, hist>>

\* ---- calls on the kept object ----

\* *it
DerefOp ==
    /\ view.kind # "none"
    /\ LET r == Deref(view, data) IN
       last' = [NoCall EXCEPT !.op = "deref", !.kind = view.kind, !.before = data,
                              !.pos = view.pos, !.err = r.err, !.val = r.val,
                              !.endPos = End(view, data).pos]
    /\ UNCHANGED <<data, view, snap, nAdd, nDel, hist>>

\* variant: ++ leaves a cursor that is at or past end() where it is
Advance_StopAtEnd ==
    /\ view.kind # "none"
    /\ view' = IF view.pos >= End(view, data).pos THEN view ELSE Inc(view)
    /\ last' = [NoCall EXCEPT !.op = "advance", !.kind = view.kind, !.before = data,
                              !.pos = view.pos, !.endPos = End(view, data).pos]
    /\ UNCHANGED <<data, snap, nAdd, nDel, hist>>

\* ++it
Advance ==
    /\ view.kind # "none"
    /\ view' = Inc(view)
    /\ last' = [NoCall EXCEPT !.op = "advance", !.kind = view.kind, !.before = data,
                              !.pos = view.pos, !.endPos = End(view, data).pos]
    /\ UNCHANGED <<data, snap, nAdd, nDel, hist>>

\* it.begin(): the returned cursor is recorded, the object is not changed
BeginOp ==
    /\ view.kind # "none"
    /\ LET b == Begin(view) IN
       last' = [NoCall EXCEPT !.op = "begin", !.kind = view.kind, !.before = data,
                              !.pos = view.pos, !.beginPos = b.pos,
                              !.out = b.own, !.endPos = End(b, data).pos]
    /\ UNCHANGED <<data, view, snap, nAdd, nDel, hist>>

\* ---- specifications ----

Next ==
    \/ \E value \in Values : nAdd < MaxAdds /\ Add(value)
    \/ \E value \in Values : Remove(value)
    \/ \E kind \in Kinds : Traverse(kind)

Spec == Init /\ [][Next]_vars

NextView ==
    \/ \E value \in ViewValues : nAdd < ViewAdds /\ Add(value)
    \/ \E value \in ViewValues : Remove(value)
    \/ \E kind \in Kinds : CreateView(kind)
    \/ DerefOp
    \/ view.pos < MaxPos /\ Advance
    \/ BeginOp
    \/ \E index \in 0..ViewAdds : At(index)

SpecView == Init /\ [][NextView]_vars

TypeOK ==
    /\ data \in Seq(Values)
    /\ Len(data) <= MaxAdds
    /\ nAdd \in 0..MaxAdds
    /\ nDel \in 0..MaxAdds

\* ---- helpers of the properties ----

\* vec without the elements equal to value, order kept
Kept(vec, value) == SelectSeq(vec, LAMBDA x : x # value)

Elems(vec) == {vec[i] : i \in 1..Len(vec)}

SameBag(s, t) ==
    /\ Len(s) = Len(t)
    /\ \A x \in Elems(s) \cup Elems(t) : Count(s, x) = Count(t, x)

NonDecreasing(s) == \A i \in 1..(Len(s) - 1) : ~(s[i + 1] < s[i])

Reversed(s) == [i \in 1..Len(s) |-> s[Len(s) + 1 - i]]

\* the element of rank i (0-based) of vec under <, by counting
NthSmallest(vec, i) ==
    CHOOSE x \in Elems(vec) :
        /\ Cardinality({j \in 1..Len(vec) : vec[j] < x}) <= i
        /\ i < Cardinality({j \in 1..Len(vec) : vec[j] <= x})

Traversed(kind) == last.op = "traverse" /\ last.kind = kind

\* C1: remove(v) on a store that holds k >= 1 elements equal to v reduces
\* size() by exactly k, leaves no element equal to v, and keeps the remaining
\* elements in their previous relative order.
C1_RemoveAll ==
    (last.op = "remove" /\ Count(last.before, last.arg) >= 1) =>
        /\ last.err = "none"
        /\ Len(data) = Len(last.before) - Count(last.before, last.arg)
        /\ \A i \in 1..Len(data) : data[i] # last.arg
        /\ data = Kept(last.before, last.arg)

C1_Witness ==
    /\ last.op = "remove"
    /\ Count(last.before, last.arg) >= 2
    /\ Len(data) >= 2
    /\ last.before[1] = last.arg

\* C2: remove(v) fails with the not-found error exactly when no element of
\* the store equals v (the empty store included), and then contents and size
\* are what they were before the call.
C2_RemoveNotFound ==
    last.op = "remove" =>
        /\ (last.err = "runtime_error") <=> (Count(last.before, last.arg) = 0)
        /\ last.err = "runtime_error" => (data = last.before /\ Size = Len(last.before))

C2_Witness ==
    /\ last.op = "remove"
    /\ last.err = "runtime_error"
    /\ Len(last.before) >= 2

\* C3 (as stated): for each of the six views, once the view is created a
\* later add or remove does not change what its traversal yields: the
\* traversal is the one computed from the store's contents at creation.
C3_Snapshot ==
    view.kind # "none" =>
        RangeFor([view EXCEPT !.pos = 0], data).out = RangeFor(Ctor(view.kind, snap), snap).out

\* C4: after any sequence of add and successful remove calls from the empty
\* store, size() is the number of add calls minus the number of elements the
\* remove calls deleted.
C4_SizeCount == Size = nAdd - nDel

C4_Witness ==
    /\ nAdd >= 4
    /\ nDel >= 2
    /\ Size >= 1
    /\ last.op = "remove" /\ last.err = "none"

\* C5: the ascending traversal is non-decreasing under < and is a permutation
\* (same multiset, duplicates included) of the store's contents at creation.
C5_Ascending ==
    Traversed("ascending") =>
        /\ last.err = "none"
        /\ NonDecreasing(last.out)
        /\ SameBag(last.out, last.before)

C5_Witness ==
    /\ Traversed("ascending")
    /\ Len(last.before) >= 4
    /\ ~NonDecreasing(last.before)
    /\ \E x \in Values : Count(last.before, x) >= 2

\* C6: the descending traversal is the exact reverse of the ascending
\* traversal of the same store state.
C6_Descending ==
    Traversed("descending") =>
        /\ last.err = "none"
        /\ last.out = Reversed(RangeFor(Ctor("ascending", last.before), last.before).out)

C6_Witness ==
    /\ Traversed("descending")
    /\ Len(last.before) >= 4
    /\ Cardinality(Elems(last.before)) >= 3
    /\ \E x \in Values : Count(last.before, x) >= 2

\* C7: for a store of size n the reverse traversal has length n and its i-th
\* element is the (n-1-i)-th element of the insertion-order traversal.
C7_Reverse ==
    Traversed("reverse") =>
        LET n == Len(last.before)
            ord == RangeFor(Ctor("order", last.before), last.before).out
        IN  /\ last.err = "none"
            /\ Len(last.out) = n
            /\ Len(ord) = n
            /\ \A i \in 0..(n - 1) : last.out[i + 1] = ord[(n - 1 - i) + 1]

C7_Witness ==
    /\ Traversed("reverse")
    /\ Len(last.before) >= 3
    /\ last.before # Reversed(last.before)

\* C8: for a store of size n with ascending-sorted contents s[0..n-1] the
\* side-cross traversal has length n, position 2i holds s[i] and position
\* 2i+1 holds s[n-1-i]; for odd n the last element is s[(n-1)/2], once.
C8_SideCross ==
    Traversed("sidecross") =>
        LET n == Len(last.before) IN
        /\ last.err = "none"
        /\ Len(last.out) = n
        /\ \A i \in 0..(n - 1) :
              /\ 2 * i <= n - 1 => last.out[2 * i + 1] = NthSmallest(last.before, i)
              /\ 2 * i + 1 <= n - 1 =>
                    last.out[(2 * i + 1) + 1] = NthSmallest(last.before, n - 1 - i)

\* five distinct values in an odd-sized store: the middle value comes last
C8_Witness ==
    /\ Traversed("sidecross")
    /\ last.before = <<3, 1, 5, 2, 4>>
    /\ last.out = <<1, 5, 2, 4, 3>>

\* C9: for a non-empty store d[0..n-1] and m = n div 2 the middle-out
\* traversal is a permutation of d of length n: d[m], then d[m-1], d[m+1],
\* d[m-2], d[m+2], ...; a side with no element left is skipped.
C9_MiddleOut ==
    (Traversed("middleout") /\ last.before # <<>>) =>
        LET d == last.before
            n == Len(d)
            m == n \div 2
        IN  /\ last.err = "none"
            /\ Len(last.out) = n
            /\ SameBag(last.out, d)
            /\ last.out[1] = d[m + 1]
            /\ \A k \in 1..m : last.out[(2 * k - 1) + 1] = d[(m - k) + 1]
            /\ \A k \in 1..(n - 1 - m) : last.out[(2 * k) + 1] = d[(m + k) + 1]

C9_Witness ==
    /\ Traversed("middleout")
    /\ last.before = <<1, 2, 3, 4, 5>>
    /\ last.out = <<3, 2, 4, 1, 5>>

\* C10: on an empty store, for each of the six views, begin equals end,
\* creating the view raises no error and a traversal visits no element.
C10_EmptyStore ==
    (last.op = "traverse" /\ last.before = <<>>) =>
        /\ last.beginPos = last.endPos
        /\ last.err = "none"
        /\ last.out = <<>>

C10_Witness ==
    /\ last.op = "traverse"
    /\ last.kind = "sidecross"
    /\ last.before = <<>>
    /\ nDel >= 1

\* C14: at(index) returns the element at position index when index < size()
\* and fails with an out-of-range error when index >= size(); the store is
\* unchanged.
C14_At ==
    last.op = "at" =>
        /\ data = last.before
        /\ last.arg < Size => (last.err = "none" /\ last.val = data[last.arg + 1])
        /\ last.arg >= Size => last.err = "out_of_range"

C14_Witness ==
    /\ last.op = "at"
    /\ Size >= 2
    /\ last.arg = Size
    /\ last.err = "out_of_range"

\* C15: after any sequence of add and successful remove calls from the empty
\* store, the insertion-order traversal is the history of added values in
\* the order added, less every value a later remove of an equal value took
\* out; add(v) puts v last and leaves the earlier elements where they were.
C15_InsertionHistory ==
    /\ RangeFor(Ctor("order", data), data).out = hist
    /\ Traversed("order") => (last.err = "none" /\ last.out = hist)
    /\ last.op = "add" =>
          /\ Size = Len(last.before) + 1
          /\ data[Size] = last.arg
          /\ \A i \in 1..Len(last.before) : data[i] = last.before[i]

C15_Witness ==
    /\ Traversed("order")
    /\ nDel >= 2
    /\ Len(hist) >= 3
    /\ Cardinality(Elems(hist)) >= 2

\* C16: for each of the six views over a store of size n that is not changed
\* during the traversal, going from begin() until the cursor equals end()
\* ends after exactly n advances, visits exactly n elements and raises no
\* out-of-range error; the construction loops of the side-cross and
\* middle-out views end for every n >= 0.
C16_TraversalEnds ==
    last.op = "traverse" =>
        LET n == Len(last.before) IN
        /\ last.err = "none"
        /\ last.steps = n
        /\ Len(last.out) = n
        /\ last.pos = last.endPos
        /\ Len(SideCrossCtor(last.before).own) = n
        /\ Len(MiddleOutCtor(last.before).own) = n

C16_Witness ==
    /\ Traversed("middleout")
    /\ Len(last.before) = 4
    /\ last.steps = 4

\* the sequence a view stands for when a call is made on it: the one its
\* constructor computed for the four classes that own a copy, the
\* container's present contents (forward / backward) for Order / ReverseOrder
ViewSeq(v, d, created) ==
    CASE v.kind = "order"   -> d
      [] v.kind = "reverse" -> Reversed(d)
      [] OTHER              -> RangeFor(Ctor(v.kind, created), created).out

\* C11: for each of the six views, current() on a cursor at position p fails
\* with an out-of-range error when p is at or past the end of the view's
\* sequence, and otherwise returns the p-th element of that sequence.
C11_Current ==
    last.op = "deref" =>
        LET seq == ViewSeq(view, data, snap) IN
        /\ last.endPos = Len(seq)
        /\ last.pos >= Len(seq) => last.err = "out_of_range"
        /\ last.pos < Len(seq) => (last.err = "none" /\ last.val = seq[last.pos + 1])

C11_Witness ==
    /\ last.op = "deref"
    /\ last.kind = "ascending"
    /\ snap = <<2, 1, 2>>
    /\ last.pos = 3
    /\ last.err = "out_of_range"

\* C12 (as stated): for each of the six views, after the view's own cursor
\* has been advanced any number of times, begin() on that same view yields a
\* cursor at position 0 over the same precomputed sequence.
C12_BeginAtZero ==
    last.op = "begin" => (last.beginPos = 0 /\ last.out = view.own)

\* C13 (as stated): for each of the six views, advance() on a cursor that is
\* already at the end is a no-op: the position is unchanged and the cursor
\* still compares equal to the view's end cursor.
C13_AdvanceAtEndNoOp ==
    (last.op = "advance" /\ last.pos = last.endPos) =>
        /\ view.pos = last.pos
        /\ Eq(view, End(view, data))

\* C13 (amended): advance() always moves the position forward by one; on a
\* cursor already at the end the result is one past the end, it no longer
\* compares equal to the view's end cursor, and current() on it fails with
\* the out-of-range error.
C13_AdvancePastEnd ==
    last.op = "advance" =>
        /\ view.pos = last.pos + 1
        /\ last.pos = last.endPos =>
              /\ view.pos = End(view, data).pos + 1
              /\ Neq(view, End(view, data))
              /\ Deref(view, data).err = "out_of_range"

C13_Witness ==
    /\ last.op = "advance"
    /\ last.pos = last.endPos
    /\ last.endPos >= 2

====
